---- MODULE Spec2Model ----
(***************************************************************************)
(* PatentSearchEngine (src/search_engine.py): the embedding store          *)
(* life-cycle (create_embeddings / load_embeddings) and the ranking        *)
(* operations (search, _apply_filters, search_by_patent_id), used as a      *)
(* library (Spec) and through PatentSearchInterface as main.py starts it    *)
(* (SpecInterface).                                                         *)
(*                                                                         *)
(* Conventions.                                                            *)
(*  - Python's None is the empty sequence <<>>, a present value x is <<x>>. *)
(*  - Strings that the code inspects character by character (titles,       *)
(*    classification codes, filters) are sequences of one-character         *)
(*    strings; ids and searchable texts are only compared, they are         *)
(*    TLA+ strings.                                                         *)
(*  - Corpus indices are 1-based here (Python index i is i + 1).            *)
(*  - Embedding vectors are pairs of integers lying on a coordinate axis,   *)
(*    so that every cosine similarity is exactly -1, 0 or 1.                *)
(***************************************************************************)
EXTENDS Integers, Sequences, FiniteSets, TLC

VARIABLES patents, embeddings, store, argsortTies, out,
          phase, stats, console

vars == <<patents, embeddings, store, argsortTies, out, phase, stats, console>>

\* ------------------------------------------------------------------ bounds
MaxDocs == 3
MaxK == 2

\* ----------------------------------------------------------------- helpers
None == <<>>
Some(x) == <<x>>

Min(a, b) == IF a <= b THEN a ELSE b
Max(a, b) == IF a >= b THEN a ELSE b

RECURSIVE Reverse(_)
Reverse(s) == IF s = <<>> THEN <<>> ELSE Append(Reverse(Tail(s)), Head(s))

InList(x, s) == \E i \in 1..Len(s) : s[i] = x

\* ------------------------------------------------------------ Python strings
LowerChar(c) ==
    CASE c = "R" -> "r"
      [] c = "I" -> "i"
      [] c = "M" -> "m"
      [] c = "B" -> "b"
      [] c = "H" -> "h"
      [] c = "U" -> "u"
      [] c = "G" -> "g"
      [] c = "E" -> "e"
      [] c = "F" -> "f"
      [] OTHER -> c

\* str.lower()
Lower(s) == [i \in 1..Len(s) |-> LowerChar(s[i])]

\* str.startswith(prefix)
StartsWith(s, prefix) ==
    Len(prefix) <= Len(s) /\ SubSeq(s, 1, Len(prefix)) = prefix

\* sub in s
Contains(s, sub) ==
    \E i \in 0..(Len(s) - Len(sub)) : SubSeq(s, i + 1, i + Len(sub)) = sub

\* bool(s) of an optional string: None and "" are falsy
Truthy(opt) == opt /= None /\ opt[1] /= <<>>

\* s[:k]
SlicePrefix(s, k) ==
    IF k >= 0 THEN SubSeq(s, 1, Min(k, Len(s)))
    ELSE SubSeq(s, 1, Max(Len(s) + k, 0))

\* --------------------------------------------------------- embedding model
\* self.model.encode: the external sentence transformer, deterministic per
\* text. Texts t1 and t3 are different texts with parallel vectors.
Encode(text) ==
    CASE text = "t1" -> <<1, 0>>
      [] text = "t2" -> <<0, 1>>
      [] text = "t3" -> <<2, 0>>
      [] text = "t4" -> <<-1, 0>>
      [] OTHER -> <<0, 0>>

Dot(a, b) == a[1] * b[1] + a[2] * b[2]

\* Euclidean norm of an axis vector
Norm(a) == CHOOSE n \in 0..4 : n * n = Dot(a, a)

\* sklearn cosine_similarity of two rows: rows are L2-normalised first, a
\* zero row is left as it is (its norm is replaced by 1).
CosineSimilarity(a, b) ==
    LET na == IF Norm(a) = 0 THEN 1 ELSE Norm(a)
        nb == IF Norm(b) = 0 THEN 1 ELSE Norm(b)
    IN  Dot(a, b) \div (na * nb)

\* ------------------------------------------------------------------ corpus
Doc(id, title, code, text) ==
    [document_number |-> id, title |-> title,
     classification_code |-> code, searchable_text |-> text]

DocPool ==
    { Doc("A", <<"R", "i", "m">>, <<"B", "6", "0", "B">>, "t1"),
      Doc("B", <<"G", "e">>,      <<"F", "1", "6", "H">>, "t2"),
      Doc("C", <<"H", "u", "b">>, <<"B", "6", "0", "B">>, "t3"),
      Doc("A", <<"r", "i", "m">>, <<"b", "6", "0", "b">>, "t4") }

\* corpora: non-empty lists of distinct records of the pool (two records
\* of the pool share the id "A")
Corpora ==
    { c \in UNION { [1..n -> DocPool] : n \in 1..MaxDocs } :
        \A i, j \in DOMAIN c : i /= j => c[i] /= c[j] }

QueryTexts == {"t1", "t2"}
\* top_k values: a negative one, zero, and counts up to MaxK
TopKs == -1..MaxK
ClassFilters == { None, Some(<<>>), Some(<<"B", "6", "0">>) }
TitleKeywords == { None, Some(<<"R", "I">>) }
DocIds == {"A", "B", "C", "Z"}

\* the matrix model.encode returns for the corpus
EncodeAll(ps) == [i \in 1..Len(ps) |-> Encode(ps[i].searchable_text)]

\* a matrix persisted by an earlier session over n documents: the rows of
\* the documents still in the corpus, then rows of documents since removed
PersistedRows(ps, n) ==
    [i \in 1..n |-> IF i <= Len(ps) THEN Encode(ps[i].searchable_text)
                    ELSE <<0, 1>>]

\* the priorities a sort may give n positions: the permutations of 1..n
TieRanks(n) ==
    { r \in [1..n -> 1..n] : \A i, j \in 1..n : i /= j => r[i] /= r[j] }

\* row counts of the matrix an earlier session may have left: the corpus
\* was the same, or had one document more or less
PersistedSizes(n) == {n - 1, n, n + 1} \cap 1..MaxDocs

File(exists, intact, rows) == [exists |-> exists, intact |-> intact, rows |-> rows]
NoFile == File(FALSE, FALSE, <<>>)

\* result of one call: the exception raised ("ok" when the call returned),
\* the returned list and, for load_embeddings, the returned flag
Outcome(kind, results, flag) == [kind |-> kind, results |-> results, flag |-> flag]
Returned(results) == Outcome("ok", results, FALSE)
Raised(kind) == Outcome(kind, <<>>, FALSE)

Call(op, query, top_k, cf, tk, id, res) ==
    [op |-> op, query |-> query, top_k |-> top_k, cf |-> cf, tk |-> tk,
     id |-> id, kind |-> res.kind, results |-> res.results, flag |-> res.flag]

\* no call in progress: the caller is at its prompt
Idle == Call("idle", "", 0, None, None, "", Returned(<<>>))

\* ---------------------------------------------------------- _apply_filters
\* variant: the title is compared without lower-casing either side
PassesFilters_CaseSensitive(patent, classification_filter, title_keyword) ==
    /\ Truthy(classification_filter) =>
          StartsWith(patent.classification_code, classification_filter[1])
    /\ Truthy(title_keyword) =>
          Contains(patent.title, title_keyword[1])

PassesFilters(patent, classification_filter, title_keyword) ==
    /\ Truthy(classification_filter) =>
          StartsWith(patent.classification_code, classification_filter[1])
    /\ Truthy(title_keyword) =>
          Contains(Lower(patent.title), Lower(title_keyword[1]))

RECURSIVE FilterLoop(_, _, _, _)
FilterLoop(ps, idx, classification_filter, title_keyword) ==
    IF idx > Len(ps) THEN <<>>
    ELSE (IF PassesFilters(ps[idx], classification_filter, title_keyword)
          THEN <<idx>> ELSE <<>>)
         \o FilterLoop(ps, idx + 1, classification_filter, title_keyword)

\* None when no filter is given, else the list of passing indices
apply_filters(ps, classification_filter, title_keyword) ==
    IF classification_filter = None /\ title_keyword = None THEN None
    ELSE Some(FilterLoop(ps, 1, classification_filter, title_keyword))

\* ------------------------------------------------------------------ search
\* np.argsort(similarities): ascending by value. The default kind is not a
\* stable sort, so the order of equal values is the build's: rank is the
\* priority the sort gives the positions (rank[i] = i is a stable sort).
Before(sims, rank, i, j) ==
    \/ sims[i] < sims[j]
    \/ sims[i] = sims[j] /\ rank[i] < rank[j]

RECURSIVE ArgsortOf(_, _, _)
ArgsortOf(sims, rank, S) ==
    IF S = {} THEN <<>>
    ELSE LET m == CHOOSE x \in S : \A y \in S \ {x} : Before(sims, rank, x, y)
         IN  <<m>> \o ArgsortOf(sims, rank, S \ {m})

argsort(sims, rank) == ArgsortOf(sims, rank, DOMAIN sims)

\* variant: the [::-1] is missing
sorted_indices_Ascending(sims, rank) == argsort(sims, rank)

\* np.argsort(similarities)[::-1]
sorted_indices(sims, rank) == Reverse(argsort(sims, rank))

\* one result: a copy of the patent with its score (idx is a ghost field,
\* the corpus index the copy was taken from)
Result(ps, sims, idx) ==
    [document_number |-> ps[idx].document_number,
     title |-> ps[idx].title,
     classification_code |-> ps[idx].classification_code,
     searchable_text |-> ps[idx].searchable_text,
     similarity_score |-> sims[idx],
     idx |-> idx]

RECURSIVE ResultLoop_OneMore(_, _, _, _, _, _)
\* variant: the loop stops on len(results) > top_k
ResultLoop_OneMore(ps, sims, order, valid_indices, top_k, acc) ==
    IF order = <<>> THEN Returned(acc)
    ELSE LET idx == Head(order) IN
         IF valid_indices /= None /\ ~InList(idx, valid_indices[1])
         THEN ResultLoop_OneMore(ps, sims, Tail(order), valid_indices, top_k, acc)
         ELSE IF idx > Len(ps) THEN Raised("IndexError")
         ELSE LET results == Append(acc, Result(ps, sims, idx)) IN
              IF Len(results) > top_k THEN Returned(results)
              ELSE ResultLoop_OneMore(ps, sims, Tail(order), valid_indices, top_k,
                                      results)

RECURSIVE ResultLoop_Prepend(_, _, _, _, _, _)
\* variant: results.insert(0, patent) in place of results.append(patent)
ResultLoop_Prepend(ps, sims, order, valid_indices, top_k, acc) ==
    IF order = <<>> THEN Returned(acc)
    ELSE LET idx == Head(order) IN
         IF valid_indices /= None /\ ~InList(idx, valid_indices[1])
         THEN ResultLoop_Prepend(ps, sims, Tail(order), valid_indices, top_k, acc)
         ELSE IF idx > Len(ps) THEN Raised("IndexError")
         ELSE LET results == <<Result(ps, sims, idx)>> \o acc IN
              IF Len(results) >= top_k THEN Returned(results)
              ELSE ResultLoop_Prepend(ps, sims, Tail(order), valid_indices, top_k,
                                      results)

RECURSIVE ResultLoop(_, _, _, _, _, _)
\* the for loop over sorted_indices; acc is results so far
ResultLoop(ps, sims, order, valid_indices, top_k, acc) ==
    IF order = <<>> THEN Returned(acc)
    ELSE LET idx == Head(order) IN
         IF valid_indices /= None /\ ~InList(idx, valid_indices[1])
         THEN ResultLoop(ps, sims, Tail(order), valid_indices, top_k, acc)
         ELSE IF idx > Len(ps) THEN Raised("IndexError")
         ELSE LET results == Append(acc, Result(ps, sims, idx)) IN
              IF Len(results) >= top_k THEN Returned(results)
              ELSE ResultLoop(ps, sims, Tail(order), valid_indices, top_k, results)

similarities(emb, query) ==
    [i \in 1..Len(emb) |-> CosineSimilarity(Encode(query), emb[i])]

search(ps, emb, rank, query, top_k, classification_filter, title_keyword) ==
    IF emb = None THEN Raised("ValueError")
    ELSE LET sims == similarities(emb[1], query)
             valid_indices == apply_filters(ps, classification_filter, title_keyword)
         IN  ResultLoop(ps, sims, sorted_indices(sims, rank), valid_indices,
                        top_k, <<>>)

\* ----------------------------------------------------- search_by_patent_id
RECURSIVE FindPatent(_, _, _)
\* index of the first patent with the document number, 0 when there is none
FindPatent(ps, document_number, idx) ==
    IF idx > Len(ps) THEN 0
    ELSE IF ps[idx].document_number = document_number THEN idx
    ELSE FindPatent(ps, document_number, idx + 1)

RECURSIVE DropId_FirstOnly(_, _)
\* variant: only the first result carrying the id is removed
DropId_FirstOnly(results, document_number) ==
    IF results = <<>> THEN <<>>
    ELSE IF Head(results).document_number = document_number THEN Tail(results)
    ELSE <<Head(results)>> \o DropId_FirstOnly(Tail(results), document_number)

RECURSIVE DropId(_, _)
DropId(results, document_number) ==
    IF results = <<>> THEN <<>>
    ELSE (IF Head(results).document_number /= document_number
          THEN <<Head(results)>> ELSE <<>>)
         \o DropId(Tail(results), document_number)

search_by_patent_id(ps, emb, rank, document_number, top_k) ==
    LET reference_idx == FindPatent(ps, document_number, 1) IN
    IF reference_idx = 0 THEN Returned(<<>>)
    ELSE LET r == search(ps, emb, rank, ps[reference_idx].searchable_text,
                         top_k + 1, None, None)
         IN  IF r.kind /= "ok" THEN r
             ELSE Returned(SlicePrefix(DropId(r.results, document_number), top_k))

\* ------------------------------------------------------------------ actions
Init ==
    /\ patents \in Corpora
    /\ embeddings = None
    /\ store \in {NoFile, File(TRUE, FALSE, <<>>)}
                 \cup { File(TRUE, TRUE, PersistedRows(patents, n)) :
                           n \in PersistedSizes(Len(patents)) }
    /\ argsortTies \in TieRanks(Max(Len(patents), Len(store.rows)))
    /\ out = Idle
    /\ phase = "engine"
    /\ stats = None
    /\ console = <<>>

\* load_embeddings: a missing file is caught and reported as False; a
\* file that does not unpickle raises before the assignment
LoadEmbeddings ==
    /\ out = Idle
    /\ \/ /\ ~store.exists
          /\ out' = Call("load", "", 0, None, None, "", Outcome("ok", <<>>, FALSE))
          /\ UNCHANGED embeddings
       \/ /\ store.exists /\ ~store.intact
          /\ out' = Call("load", "", 0, None, None, "", Raised("UnpicklingError"))
          /\ UNCHANGED embeddings
       \/ /\ store.exists /\ store.intact
          /\ embeddings' = Some(store.rows)
          /\ out' = Call("load", "", 0, None, None, "", Outcome("ok", <<>>, TRUE))
    /\ UNCHANGED <<patents, store, argsortTies, phase, stats, console>>

\* create_embeddings: encode, assign, then makedirs/open/dump; every
\* exception propagates
CreateEmbeddings ==
    /\ out = Idle
    /\ \/ /\ out' = Call("create", "", 0, None, None, "", Raised("EncodeError"))
          /\ UNCHANGED <<embeddings, store>>
       \/ /\ embeddings' = Some(EncodeAll(patents))
          /\ out' = Call("create", "", 0, None, None, "", Raised("OSError"))
          /\ \/ UNCHANGED store
             \/ store' = File(TRUE, FALSE, <<>>)
       \/ /\ embeddings' = Some(EncodeAll(patents))
          /\ store' = File(TRUE, TRUE, EncodeAll(patents))
          /\ out' = Call("create", "", 0, None, None, "", Returned(<<>>))
    /\ UNCHANGED <<patents, argsortTies, phase, stats, console>>

Search ==
    /\ out = Idle
    /\ \E query \in QueryTexts, top_k \in TopKs,
          cf \in ClassFilters, tk \in TitleKeywords :
          out' = Call("search", query, top_k, cf, tk, "",
                      search(patents, embeddings, argsortTies, query, top_k, cf, tk))
    /\ UNCHANGED <<patents, embeddings, store, argsortTies, phase, stats, console>>

SearchByPatentId ==
    /\ out = Idle
    /\ \E id \in DocIds, top_k \in TopKs :
          out' = Call("by_id", "", top_k, None, None, id,
                      search_by_patent_id(patents, embeddings, argsortTies, id, top_k))
    /\ UNCHANGED <<patents, embeddings, store, argsortTies, phase, stats, console>>

\* the caller has consumed the value (or exception) of its last call and
\* is back at its prompt; calls are issued one at a time
NextPrompt ==
    /\ out /= Idle
    /\ out' = Idle
    /\ UNCHANGED <<patents, embeddings, store, argsortTies, phase, stats, console>>

Next ==
    \/ NextPrompt
    \/ LoadEmbeddings
    \/ CreateEmbeddings
    \/ Search
    \/ SearchByPatentId

Spec == Init /\ [][Next]_vars

\* --------------------------------------------------- get_search_statistics
RECURSIVE SumSeq(_)
SumSeq(xs) == IF xs = <<>> THEN 0 ELSE Head(xs) + SumSeq(Tail(xs))

\* np.mean(scores): the quotient num / den, kept as the pair
Mean(xs) == [num |-> SumSeq(xs), den |-> Len(xs)]

\* np.max(scores), np.min(scores)
MaxOf(xs) == CHOOSE x \in { xs[i] : i \in 1..Len(xs) } : \A i \in 1..Len(xs) : x >= xs[i]
MinOf(xs) == CHOOSE x \in { xs[i] : i \in 1..Len(xs) } : \A i \in 1..Len(xs) : x <= xs[i]

\* variant: max_similarity is computed with np.min
get_search_statistics_MinForMax(results) ==
    IF results = <<>> THEN [count |-> 0]
    ELSE LET scores == [i \in 1..Len(results) |-> results[i].similarity_score]
         IN  [count |-> Len(results),
              avg_similarity |-> Mean(scores),
              max_similarity |-> MinOf(scores),
              min_similarity |-> MinOf(scores)]

\* the returned dictionary, a function of its keys
get_search_statistics(results) ==
    IF results = <<>> THEN [count |-> 0]
    ELSE LET scores == [i \in 1..Len(results) |-> results[i].similarity_score]
         IN  [count |-> Len(results),
              avg_similarity |-> Mean(scores),
              max_similarity |-> MaxOf(scores),
              min_similarity |-> MinOf(scores)]

\* ------------------------------------------------- PatentSearchInterface
\* where create_embeddings may fail: nowhere, in model.encode, in
\* makedirs/open, in pickle.dump after the file was opened for writing
CreateFailures == {"none", "encode", "open", "dump"}

\* load_embeddings as a function of the engine and the file
load_embeddings(emb, st) ==
    IF ~st.exists THEN [kind |-> "ok", flag |-> FALSE, embeddings |-> emb]
    ELSE IF ~st.intact
    THEN [kind |-> "UnpicklingError", flag |-> FALSE, embeddings |-> emb]
    ELSE [kind |-> "ok", flag |-> TRUE, embeddings |-> Some(st.rows)]

\* create_embeddings as a function of the engine, the file and the failure
create_embeddings(ps, emb, st, fail) ==
    CASE fail = "encode" ->
           [kind |-> "EncodeError", embeddings |-> emb, store |-> st]
      [] fail = "open" ->
           [kind |-> "OSError", embeddings |-> Some(EncodeAll(ps)), store |-> st]
      [] fail = "dump" ->
           [kind |-> "OSError", embeddings |-> Some(EncodeAll(ps)),
            store |-> File(TRUE, FALSE, <<>>)]
      [] OTHER ->
           [kind |-> "ok", embeddings |-> Some(EncodeAll(ps)),
            store |-> File(TRUE, TRUE, EncodeAll(ps))]

SetupResult(kind, flag, emb, st, printed) ==
    [kind |-> kind, flag |-> flag, embeddings |-> emb, store |-> st,
     console |-> printed]

\* variant: a missing embeddings file is not followed by create_embeddings
setup_NoFallback(ps, emb, st, fail) ==
    IF ps = <<>> THEN SetupResult("ok", FALSE, emb, st, <<"no_patents">>)
    ELSE LET l == load_embeddings(emb, st) IN
         IF l.kind /= "ok" THEN SetupResult(l.kind, FALSE, l.embeddings, st, <<>>)
         ELSE SetupResult("ok", TRUE, l.embeddings, st, <<"complete">>)

\* PatentSearchInterface.setup: the value returned (flag) or the exception
\* (kind), the engine's embeddings, the file and the messages printed
setup(ps, emb, st, fail) ==
    IF ps = <<>> THEN SetupResult("ok", FALSE, emb, st, <<"no_patents">>)
    ELSE LET l == load_embeddings(emb, st) IN
         IF l.kind /= "ok" THEN SetupResult(l.kind, FALSE, l.embeddings, st, <<>>)
         ELSE IF l.flag
         THEN SetupResult("ok", TRUE, l.embeddings, st, <<"complete">>)
         ELSE LET c == create_embeddings(ps, l.embeddings, st, fail) IN
              IF c.kind /= "ok"
              THEN SetupResult(c.kind, FALSE, c.embeddings, c.store, <<"creating">>)
              ELSE SetupResult("ok", TRUE, c.embeddings, c.store,
                               <<"creating", "complete">>)

DefaultTopK == 5

\* where an interface call leaves main: an exception escapes run() and main
AfterCall(res) == IF res.kind = "ok" THEN "running" ELSE "crashed"

\* the interface object is constructed, no data is loaded yet; patents is
\* what load_all_patents will return (nothing when no file is found)
InitInterface ==
    /\ patents \in Corpora \cup {<<>>}
    /\ embeddings = None
    /\ store \in {NoFile, File(TRUE, FALSE, <<>>)}
                 \cup { File(TRUE, TRUE, PersistedRows(patents, n)) :
                           n \in PersistedSizes(Len(patents)) }
    /\ argsortTies \in TieRanks(Max(Len(patents), Len(store.rows)))
    /\ out = Idle
    /\ phase = "start"
    /\ stats = None
    /\ console = <<>>

\* main: setup, then run() when it returned True, the failure message when
\* it returned False
Main ==
    /\ phase = "start"
    /\ \E fail \in CreateFailures :
          LET r == setup(patents, embeddings, store, fail) IN
          /\ embeddings' = r.embeddings
          /\ store' = r.store
          /\ out' = Call("setup", "", 0, None, None, "",
                         Outcome(r.kind, <<>>, r.flag))
          /\ console' = IF r.kind = "ok" /\ ~r.flag
                        THEN r.console \o <<"failed">> ELSE r.console
          /\ phase' = IF r.kind /= "ok" THEN "crashed"
                      ELSE IF r.flag THEN "running" ELSE "failed"
    /\ UNCHANGED <<patents, argsortTies, stats>>

\* basic_search_mode: one query
BasicSearch ==
    /\ phase = "running" /\ out = Idle
    /\ \E query \in QueryTexts :
          LET res == search(patents, embeddings, argsortTies, query,
                            DefaultTopK, None, None) IN
          /\ out' = Call("search", query, DefaultTopK, None, None, "", res)
          /\ phase' = AfterCall(res)
    /\ UNCHANGED <<patents, embeddings, store, argsortTies, stats, console>>

\* advanced_search_mode: one query with its filters (an empty input is
\* None) and its top_k, then the statistics of the results
AdvancedSearch ==
    /\ phase = "running" /\ out = Idle
    /\ \E query \in QueryTexts, top_k \in TopKs \cup {DefaultTopK},
          cf \in ClassFilters \ {Some(<<>>)}, tk \in TitleKeywords :
          LET res == search(patents, embeddings, argsortTies, query, top_k, cf, tk) IN
          /\ out' = Call("search", query, top_k, cf, tk, "", res)
          /\ stats' = IF res.kind = "ok"
                      THEN Some(get_search_statistics(res.results)) ELSE None
          /\ phase' = AfterCall(res)
    /\ UNCHANGED <<patents, embeddings, store, argsortTies, console>>

\* patent_similarity_mode: one document number
PatentSimilarity ==
    /\ phase = "running" /\ out = Idle
    /\ \E id \in DocIds :
          LET res == search_by_patent_id(patents, embeddings, argsortTies, id,
                                         DefaultTopK) IN
          /\ out' = Call("by_id", "", DefaultTopK, None, None, id, res)
          /\ phase' = AfterCall(res)
    /\ UNCHANGED <<patents, embeddings, store, argsortTies, stats, console>>

\* the results are displayed and the mode asks for the next input
InterfacePrompt ==
    /\ phase = "running" /\ out /= Idle
    /\ out' = Idle
    /\ stats' = None
    /\ UNCHANGED <<patents, embeddings, store, argsortTies, phase, console>>

\* menu choice 5
Quit ==
    /\ phase = "running" /\ out = Idle
    /\ phase' = "quit"
    /\ UNCHANGED <<patents, embeddings, store, argsortTies, out, stats, console>>

NextInterface ==
    \/ Main
    \/ BasicSearch
    \/ AdvancedSearch
    \/ PatentSimilarity
    \/ InterfacePrompt
    \/ Quit

SpecInterface == InitInterface /\ [][NextInterface]_vars

\* ---------------------------------------------------- properties of search
MaxM == 2

\* the last call was op and has returned a list
ReturnedFrom(op) == out.op = op /\ out.kind = "ok"

\* the embedding matrix has one row per document
Aligned == embeddings /= None /\ Len(embeddings[1]) = Len(patents)

\* the filter predicates as the specification states them
HasPrefix(s, p) == Len(p) <= Len(s) /\ \A i \in 1..Len(p) : s[i] = p[i]

ContainsIgnoringCase(s, sub) ==
    \E off \in 0..(Len(s) - Len(sub)) :
        \A i \in 1..Len(sub) : LowerChar(s[off + i]) = LowerChar(sub[i])

Satisfies(d, cf, tk) ==
    /\ cf /= None => HasPrefix(d.classification_code, cf[1])
    /\ tk /= None => ContainsIgnoringCase(d.title, tk[1])

AdmissibleSet(cf, tk) == { i \in 1..Len(patents) : Satisfies(patents[i], cf, tk) }

ListSet(s) == { s[i] : i \in 1..Len(s) }

IsPrefix(s, t) == Len(s) <= Len(t) /\ SubSeq(t, 1, Len(s)) = s

C2_NonPositiveTopKIsEmpty ==
    (out.op = "search" /\ embeddings /= None /\ out.top_k <= 0) =>
        (out.kind = "ok" /\ out.results = <<>>)

\* C3: for top_k >= 1, search over a corpus with one embedding row per
\* document returns exactly min(top_k, size of the admissible set) results,
\* each a distinct admissible corpus entry.
C3_ExactCount ==
    (out.op = "search" /\ Aligned /\ out.top_k >= 1) =>
        /\ out.kind = "ok"
        /\ Len(out.results) =
              Min(out.top_k, Cardinality(AdmissibleSet(out.cf, out.tk)))
        /\ \A i \in 1..Len(out.results) :
              /\ out.results[i].idx \in AdmissibleSet(out.cf, out.tk)
              /\ out.results[i].document_number =
                    patents[out.results[i].idx].document_number
              /\ out.results[i].title = patents[out.results[i].idx].title
        /\ \A i, j \in 1..Len(out.results) :
              i /= j => out.results[i].idx /= out.results[j].idx

\* top_k exceeded a non-empty admissible set that a filter had narrowed,
\* and every admissible document came back
C3_Witness ==
    /\ out.op = "search" /\ Aligned /\ out.kind = "ok"
    /\ out.top_k > Len(out.results)
    /\ Len(out.results) >= 1
    /\ Len(out.results) < Len(patents)
    /\ { out.results[i].idx : i \in 1..Len(out.results) }
          = AdmissibleSet(out.cf, out.tk)

\* C4: every result of a filtered search satisfies all predicates present
\* in the filter (case-sensitive classification prefix, case-insensitive
\* title substring), and the index list _apply_filters computes for the
\* search is exactly the set of indices of the documents that satisfy every
\* present predicate.
C4_FilterCorrect ==
    /\ ReturnedFrom("search") =>
          \A i \in 1..Len(out.results) : Satisfies(out.results[i], out.cf, out.tk)
    /\ (out.op = "search" /\ (out.cf /= None \/ out.tk /= None)) =>
          /\ apply_filters(patents, out.cf, out.tk) /= None
          /\ ListSet(apply_filters(patents, out.cf, out.tk)[1])
                = AdmissibleSet(out.cf, out.tk)

\* a search with both predicates returned a document although the corpus
\* holds one failing only the prefix and one failing only the title
C4_Witness ==
    /\ ReturnedFrom("search")
    /\ Truthy(out.cf) /\ Truthy(out.tk)
    /\ Len(out.results) >= 1
    /\ \E i \in 1..Len(patents) :
          /\ ~Satisfies(patents[i], out.cf, None)
          /\ Satisfies(patents[i], None, out.tk)
    /\ \E i \in 1..Len(patents) :
          /\ Satisfies(patents[i], out.cf, None)
          /\ ~Satisfies(patents[i], None, out.tk)

\* C5: over a corpus with one embedding row per document, the result of
\* search with top_k = k is a prefix of the result with top_k = k + m, for
\* the same query and filter and every m >= 0.
C5_TopKMonotone ==
    (ReturnedFrom("search") /\ Aligned) =>
        \A m \in 0..MaxM :
            LET more == search(patents, embeddings, argsortTies, out.query,
                               out.top_k + m, out.cf, out.tk)
            IN  more.kind = "ok" /\ IsPrefix(out.results, more.results)

\* a search returned a non-empty list and the same search with a larger
\* top_k returns a strictly longer one
C5_Witness ==
    /\ ReturnedFrom("search") /\ Aligned
    /\ Len(out.results) >= 1
    /\ out.top_k >= 1
    /\ Len(search(patents, embeddings, argsortTies, out.query,
                  out.top_k + 1, out.cf, out.tk).results) > Len(out.results)

\* C6: for an existing id X, search_by_patent_id(X, top_k = k) returns no
\* result whose document_number is X and at most k results (none for a
\* negative k), also when several documents share the id.
C6_SelfExclusion ==
    (ReturnedFrom("by_id") /\ FindPatent(patents, out.id, 1) /= 0) =>
        /\ \A i \in 1..Len(out.results) : out.results[i].document_number /= out.id
        /\ Len(out.results) <= Max(out.top_k, 0)

\* the id is carried by two documents, both were ranked, and the call
\* still returned another document
C6_Witness ==
    /\ ReturnedFrom("by_id") /\ Aligned
    /\ Cardinality({ i \in 1..Len(patents) : patents[i].document_number = out.id }) = 2
    /\ out.top_k = 2
    /\ Len(out.results) = 1

\* ------------------------------------------------- errors and the life-cycle
\* C7: when no document has the requested id, search_by_patent_id fails
\* with a not-found outcome that differs from the outcome of a successful
\* search with zero results, and the engine state is unchanged.
C7_NotFoundIsDistinct ==
    (out.op = "by_id" /\ FindPatent(patents, out.id, 1) = 0) =>
        /\ out.kind = "NotFoundError"
        /\ <<out.kind, out.results>> /= <<"ok", <<>> >>

\* C8: a search attempted while the engine has no embeddings fails with
\* the no-embeddings error (the ValueError of search) and never returns a
\* result list.
C8_NoEmbeddingsAlwaysFails ==
    (out.op \in {"search", "by_id"} /\ embeddings = None) =>
        out.kind = "ValueError"

\* C9: load_embeddings fails with a shape-mismatch error when the
\* persisted matrix's row count differs from the number of documents, so
\* embeddings that are present have one row per document, row i being the
\* vector of document i.
C9_RowsMatchDocuments ==
    /\ (out.op = "load" /\ store.exists /\ store.intact
          /\ Len(store.rows) /= Len(patents)) => out.kind = "ShapeMismatch"
    /\ embeddings /= None =>
          /\ Len(embeddings[1]) = Len(patents)
          /\ \A i \in 1..Len(patents) :
                embeddings[1][i] = Encode(patents[i].searchable_text)

\* C10: a create_embeddings that fails leaves the in-memory embeddings and
\* the persisted store either both holding the complete new set or both
\* exactly as they were before the call.
C10_AllOrNothing ==
    [][ (out'.op = "create" /\ out'.kind /= "ok") =>
           \/ embeddings' = embeddings /\ store' = store
           \/ /\ embeddings' = Some(EncodeAll(patents))
              /\ store' = File(TRUE, TRUE, EncodeAll(patents)) ]_vars

\* the documents whose id is not the requested one
OtherDocs(id) == { i \in 1..Len(patents) : patents[i].document_number /= id }

\* C13: for an existing id X and top_k = k >= 0, over a corpus with one
\* embedding row per document, search_by_patent_id returns exactly
\* min(k, number of documents whose id differs from X) results, and they
\* are the highest-ranked documents with id different from X, also when
\* several documents share the id X.
C13_OverFetchIsEnough ==
    (ReturnedFrom("by_id") /\ Aligned /\ out.top_k >= 0
       /\ FindPatent(patents, out.id, 1) /= 0) =>
        LET ref == patents[FindPatent(patents, out.id, 1)].searchable_text
            sims == similarities(embeddings[1], ref)
            got == { out.results[i].idx : i \in 1..Len(out.results) }
        IN  /\ Len(out.results) = Min(out.top_k, Cardinality(OtherDocs(out.id)))
            /\ got \subseteq OtherDocs(out.id)
            /\ \A i \in got, j \in OtherDocs(out.id) \ got : sims[i] >= sims[j]

\* ------------------------------------------------ properties of the interface
SearchOps == {"search", "by_id"}

\* C11: in every step of main and the interface, a setup whose load found
\* no file and whose create did not fail returns True with the computed
\* embeddings in memory and in the store; setup returns True, and run() is
\* entered, only with embeddings present; a search is issued only after
\* setup returned True, and it never raises the no-embeddings error.
C11_SetupGuardsSearch ==
    [][ /\ (out'.op = "setup" /\ out'.kind = "ok" /\ patents /= <<>>
              /\ ~store.exists) =>
               /\ out'.flag
               /\ embeddings' = Some(EncodeAll(patents))
               /\ store' = File(TRUE, TRUE, EncodeAll(patents))
        /\ (out'.op = "setup" /\ out'.kind = "ok" /\ out'.flag) =>
               embeddings' /= None
        /\ (phase' = "running" /\ phase /= "running") =>
               (out'.op = "setup" /\ out'.kind = "ok" /\ out'.flag)
        /\ phase' = "running" => embeddings' /= None
        /\ (out'.op \in SearchOps /\ out.op \notin SearchOps) =>
               /\ phase = "running"
               /\ "complete" \in ListSet(console)
               /\ out'.kind /= "ValueError" ]_vars

\* setup found no embeddings file, created and saved the embeddings, and a
\* search issued afterwards returned results
C11_Witness ==
    /\ console = <<"creating", "complete">>
    /\ phase = "running"
    /\ ReturnedFrom("search")
    /\ Len(out.results) >= 1
    /\ store = File(TRUE, TRUE, EncodeAll(patents))

\* the sum of the scores, counted value by value
ScoreSum(results) ==
    LET n(v) == Cardinality({ i \in 1..Len(results) :
                                  results[i].similarity_score = v })
    IN  n(1) - n(-1)

\* C12: the statistics of an empty result list are exactly {count: 0},
\* with no numeric aggregate; those of a non-empty list are its length and
\* the average, maximum and minimum of its similarity scores; the call
\* after an advanced search that returned never fails.
C12_Statistics ==
    /\ (ReturnedFrom("search") /\ out.top_k /= DefaultTopK) => stats /= None
    /\ stats /= None =>
          LET d == stats[1]
              rs == out.results
          IN  IF rs = <<>>
              THEN DOMAIN d = {"count"} /\ d.count = 0
              ELSE /\ DOMAIN d = {"count", "avg_similarity",
                                   "max_similarity", "min_similarity"}
                   /\ d.count = Len(rs)
                   /\ d.avg_similarity.den > 0
                   /\ d.avg_similarity.num * Len(rs)
                         = ScoreSum(rs) * d.avg_similarity.den
                   /\ \E i \in 1..Len(rs) : rs[i].similarity_score = d.max_similarity
                   /\ \A i \in 1..Len(rs) : rs[i].similarity_score <= d.max_similarity
                   /\ \E i \in 1..Len(rs) : rs[i].similarity_score = d.min_similarity
                   /\ \A i \in 1..Len(rs) : rs[i].similarity_score >= d.min_similarity

\* an advanced search whose filters admitted no document returned the
\* empty list, and its statistics are {count: 0}
C12_Witness ==
    /\ ReturnedFrom("search")
    /\ out.results = <<>>
    /\ out.top_k >= 1
    /\ embeddings /= None
    /\ stats = Some([count |-> 0])

====
